---- MODULE Spec2Model ----
(***************************************************************************)
(* ttok-rs (src/src/main.rs): a token counter with a diff mode.  One run   *)
(* of the program is modelled as a state machine: the argument scan of     *)
(* run(), the tokenizer load, the branch on the resolved mode, the diff    *)
(* classification and the report, and main()'s mapping of the result to    *)
(* an exit code.                                                           *)
(*                                                                         *)
(* Representation.  A text is a sequence of one-character strings.  A      *)
(* program path is a sequence of path components; a displayed name is a    *)
(* path of one component.  An Option<T> is a sequence of length 0 or 1.    *)
(* An error message is a record [fmt, arg]: the format string of the       *)
(* source and the sequence of characters or strings interpolated in it.    *)
(***************************************************************************)
EXTENDS Integers, Sequences, FiniteSets, TLC

(***************************************************************************)
(* Bounds of the model.                                                    *)
(***************************************************************************)
\* longest argument list (program name excluded)
MaxArgs == 3
\* longest byte stream read from stdin or from git's stdout, full runs
MaxStdin == 1
\* longest stderr text of the git process
MaxErr == 3
\* longest diff text handed to diff_token_totals, SpecTotals
MaxText == 6
\* bits of usize, scaled down; i128 has twice as many bits plus headroom
UsizeBits == 4

UsizeMax == 2 ^ UsizeBits - 1
I128Bits == 2 * UsizeBits

DEFAULT_ENCODING == "o200k_base"

None == << >>
Some(x) == << x >>

(***************************************************************************)
(* Input alphabets.                                                        *)
(***************************************************************************)
EncodingFlags == {"-e", "--encoding"}
DiffFlags == {"-d", "--diff"}
HelpFlags == {"-h", "--help"}
KnownFlags == EncodingFlags \cup DiffFlags \cup HelpFlags \cup {"--git", "--net", "--list"}
Tokens == KnownFlags \cup {"gpt2", "bogus"}

Chars == {"+", "-", "a", "\n", "\r"}
InvalidByte == "xFF"
ReplacementChar == "uFFFD"
Bytes == {"+", "-", "a", "\n", InvalidByte}
ErrChars == {" ", "\n", "f"}
Whitespace == {" ", "\n", "\r", "\t"}

SeqsUpTo(S, n) == UNION {[1..k -> S] : k \in 0..n}

ArgLists == SeqsUpTo(Tokens, MaxArgs)
ByteTexts == SeqsUpTo(Bytes, MaxStdin)
ErrTexts == SeqsUpTo(ErrChars, MaxErr)
DiffTexts == SeqsUpTo(Chars, MaxText)
PartialStdouts == {<< >>, <<"+", "a", "\n">>}
ProgramPaths == {<<"usr", "bin", "ttok">>}
OsErrors == {"os error"}

(***************************************************************************)
(* Mode                                                                    *)
(***************************************************************************)
Count == [kind |-> "Count", diff_args |-> << >>]
Diff == [kind |-> "Diff", diff_args |-> << >>]
GitDiff(diff_args) == [kind |-> "GitDiff", diff_args |-> diff_args]

(***************************************************************************)
(* Error messages                                                          *)
(***************************************************************************)
Msg(fmt, arg) == [fmt |-> fmt, arg |-> arg]
MissingValueMsg == Msg("missing value for --encoding", << >>)
NetCountMsg == Msg("--net can only be used with --diff or --git", << >>)
UnrecognizedMsg(other) == Msg("unrecognized argument '{other}'", <<other>>)
UnsupportedMsg(other) == Msg("unsupported encoding '{other}'", <<other>>)
StdinMsg(e) == Msg("failed to read stdin: {err}", <<e>>)
SpawnMsg(e) == Msg("failed to run git diff: {err}", <<e>>)
GitMsg(trimmed) == Msg("{stderr}", trimmed)

(***************************************************************************)
(* Pure functions                                                          *)
(***************************************************************************)
\* display_name: the last component of the path; the raw path when it has none
display_name(raw) ==
    IF raw = << >> \/ raw[Len(raw)] = ".." THEN raw ELSE << raw[Len(raw)] >>

\* String::from_utf8_lossy: every invalid byte becomes U+FFFD
from_utf8_lossy(bytes) ==
    [i \in 1..Len(bytes) |-> IF bytes[i] = InvalidByte THEN ReplacementChar ELSE bytes[i]]

\* str::trim: strip leading and trailing whitespace
RECURSIVE trim_start(_)
trim_start(s) ==
    IF s # << >> /\ s[1] \in Whitespace THEN trim_start(Tail(s)) ELSE s

RECURSIVE trim_end(_)
trim_end(s) ==
    IF s # << >> /\ s[Len(s)] \in Whitespace THEN trim_end(SubSeq(s, 1, Len(s) - 1)) ELSE s

trim(s) == trim_end(trim_start(s))

\* str::starts_with / str::strip_prefix
starts_with(line, prefix) ==
    Len(line) >= Len(prefix) /\ SubSeq(line, 1, Len(prefix)) = prefix

strip_prefix(line, c) ==
    IF line # << >> /\ line[1] = c THEN Some(Tail(line)) ELSE None

\* str::lines: split after every "\n"; a terminated line loses its "\n" and
\* then one "\r" before it; an unterminated last line is kept as it is; no
\* empty line after a final "\n".
RECURSIVE lines_from(_, _, _, _)
lines_from(s, i, cur, acc) ==
    IF i > Len(s)
    THEN IF cur = << >> THEN acc ELSE Append(acc, cur)
    ELSE IF s[i] = "\n"
         THEN LET line == IF cur # << >> /\ cur[Len(cur)] = "\r"
                          THEN SubSeq(cur, 1, Len(cur) - 1)
                          ELSE cur
              IN lines_from(s, i + 1, << >>, Append(acc, line))
         ELSE lines_from(s, i + 1, Append(cur, s[i]), acc)

lines(s) == lines_from(s, 1, << >>, << >>)

\* CoreBPE::encode_with_special_tokens, the external tokenizer: an opaque
\* deterministic map from a text to a token sequence.  Stand-in vocabulary:
\* a doubled character is one token, any other character is one token.
RECURSIVE encode_with_special_tokens(_, _)
encode_with_special_tokens(tokenizer, s) ==
    IF s = << >> THEN << >>
    ELSE IF Len(s) >= 2 /\ s[1] = s[2]
         THEN << <<s[1], s[2]>> >> \o encode_with_special_tokens(tokenizer, SubSeq(s, 3, Len(s)))
         ELSE << <<s[1]>> >> \o encode_with_special_tokens(tokenizer, Tail(s))

\* load_encoding: the encoding a supported name resolves to.  The constructors
\* build from vocabularies compiled into the binary; they are taken to succeed.
SupportedEncodings ==
    {"o200k_base", "cl100k_base", "p50k_base", "p50k_edit", "r50k_base", "gpt2"}

load_encoding(name) ==
    IF name \in SupportedEncodings
    THEN Some(IF name = "gpt2" THEN "r50k_base" ELSE name)
    ELSE None

\* diff_token_totals: the loop over the lines, with its two accumulators
RECURSIVE diff_loop(_, _, _, _, _)
diff_loop(tokenizer, ls, i, added, removed) ==
    IF i > Len(ls) THEN <<added, removed>>
    ELSE LET line == ls[i] IN
         IF starts_with(line, <<"+", "+", "+">>) \/ starts_with(line, <<"-", "-", "-">>)
         THEN diff_loop(tokenizer, ls, i + 1, added, removed)
         ELSE IF strip_prefix(line, "+") # None
              THEN diff_loop(tokenizer, ls, i + 1,
                             added + Len(encode_with_special_tokens(tokenizer, strip_prefix(line, "+")[1])),
                             removed)
              ELSE IF strip_prefix(line, "-") # None
                   THEN diff_loop(tokenizer, ls, i + 1, added,
                                  removed + Len(encode_with_special_tokens(tokenizer, strip_prefix(line, "-")[1])))
                   ELSE diff_loop(tokenizer, ls, i + 1, added, removed)

\* the loop without the file-header test
RECURSIVE diff_loop_no_header(_, _, _, _, _)
diff_loop_no_header(tokenizer, ls, i, added, removed) ==
    IF i > Len(ls) THEN <<added, removed>>
    ELSE LET line == ls[i] IN
         IF strip_prefix(line, "+") # None
         THEN diff_loop_no_header(tokenizer, ls, i + 1,
                        added + Len(encode_with_special_tokens(tokenizer, strip_prefix(line, "+")[1])),
                        removed)
         ELSE IF strip_prefix(line, "-") # None
              THEN diff_loop_no_header(tokenizer, ls, i + 1, added,
                             removed + Len(encode_with_special_tokens(tokenizer, strip_prefix(line, "-")[1])))
              ELSE diff_loop_no_header(tokenizer, ls, i + 1, added, removed)

diff_token_totals_no_header(tokenizer, diff) ==
    diff_loop_no_header(tokenizer, lines(diff), 1, 0, 0)

diff_token_totals(tokenizer, diff) == diff_loop(tokenizer, lines(diff), 1, 0, 0)

\* two's-complement value of v in a signed integer of the given width
WrapSigned(v, bits) ==
    LET m == v % (2 ^ bits) IN IF m >= 2 ^ (bits - 1) THEN m - 2 ^ bits ELSE m

\* the subtraction done in the tally's own width, as isize
net_total_isize(a, r) ==
    WrapSigned(WrapSigned(a, UsizeBits) - WrapSigned(r, UsizeBits), UsizeBits)

\* print_diff_totals: (added as i128) - (removed as i128)
net_total(a, r) == WrapSigned(WrapSigned(a, I128Bits) - WrapSigned(r, I128Bits), I128Bits)

\* the argument vector run_git_diff hands to Command
git_command(args) == <<"diff", "--no-ext-diff", "--unified=0">> \o args

\* the lines written to standard output
Out(kind, a, b, name) == [kind |-> kind, a |-> a, b |-> b, name |-> name]

(***************************************************************************)
(* State                                                                   *)
(***************************************************************************)
VARIABLES
    arg0,        \* Option: the program path, env::args().next()
    argv,        \* the remaining command-line arguments, in order
    idx,         \* how many of argv the iterator `args` has yielded
    program,     \* display_name(raw_program)
    encoding,    \* the encoding name
    mode,        \* Mode
    net_output,  \* bool
    pc,          \* "scan", "load", "match", "have_text", "report", "done"
    tokenizer,   \* Option: the loaded encoding
    stdin_state, \* "unread", "read", "failed"
    proc,        \* the git process: what was run and what came back
    text,        \* Option: the text to tokenize
    added,       \* usize
    removed,     \* usize
    stdout,      \* sequence of Out records
    stderr,      \* sequence of [prefix, msg]
    exit_code    \* Option: the process's exit code

vars == <<arg0, argv, idx, program, encoding, mode, net_output, pc, tokenizer,
          stdin_state, proc, text, added, removed, stdout, stderr, exit_code>>

NoProc == [invoked |-> FALSE, spawned |-> FALSE, argv |-> << >>, success |-> FALSE,
           stdout |-> << >>, stderr |-> << >>]

raw_program(a0) == IF a0 = None THEN <<"ttok-rs">> ELSE a0[1]

Init ==
    /\ arg0 \in {None} \cup {Some(p) : p \in ProgramPaths}
    /\ argv \in ArgLists
    /\ idx = 0
    /\ program = display_name(raw_program(arg0))
    /\ encoding = DEFAULT_ENCODING
    /\ mode = Count
    /\ net_output = FALSE
    /\ pc = "scan"
    /\ tokenizer = None
    /\ stdin_state = "unread"
    /\ proc = NoProc
    /\ text = None
    /\ added = 0
    /\ removed = 0
    /\ stdout = << >>
    /\ stderr = << >>
    /\ exit_code = None

(***************************************************************************)
(* main: an Err is written to the error stream and the exit code is 1      *)
(***************************************************************************)
Fail(msg) ==
    /\ pc' = "done"
    /\ stderr' = Append(stderr, [prefix |-> <<"ttok-rs">>, msg |-> msg])
    /\ exit_code' = Some(1)

Succeed ==
    /\ pc' = "done"
    /\ exit_code' = Some(0)
    /\ UNCHANGED stderr

(***************************************************************************)
(* run: the argument scan                                                  *)
(***************************************************************************)
Scanning == pc = "scan" /\ idx < Len(argv)
arg == argv[idx + 1]

\* a missing value silently keeps the current encoding
ScanEncoding_IgnoreMissing ==
    /\ Scanning
    /\ arg \in EncodingFlags
    /\ IF idx + 1 < Len(argv)
       THEN /\ encoding' = argv[idx + 2]
            /\ idx' = idx + 2
       ELSE /\ idx' = idx + 1
            /\ UNCHANGED encoding
    /\ UNCHANGED <<arg0, argv, program, mode, net_output, pc, tokenizer, stdin_state,
                   proc, text, added, removed, stdout, stderr, exit_code>>

ScanEncoding ==
    /\ Scanning
    /\ arg \in EncodingFlags
    /\ IF idx + 1 < Len(argv)
       THEN /\ encoding' = argv[idx + 2]
            /\ idx' = idx + 2
            /\ UNCHANGED <<pc, stderr, exit_code>>
       ELSE /\ idx' = idx + 1
            /\ Fail(MissingValueMsg)
            /\ UNCHANGED encoding
    /\ UNCHANGED <<arg0, argv, program, mode, net_output, tokenizer, stdin_state,
                   proc, text, added, removed, stdout>>

\* -d as a toggle instead of an assignment
ScanDiff_Toggle ==
    /\ Scanning
    /\ arg \in DiffFlags
    /\ mode' = IF mode = Diff THEN Count ELSE Diff
    /\ idx' = idx + 1
    /\ UNCHANGED <<arg0, argv, program, encoding, net_output, pc, tokenizer,
                   stdin_state, proc, text, added, removed, stdout, stderr, exit_code>>

ScanDiff ==
    /\ Scanning
    /\ arg \in DiffFlags
    /\ mode' = Diff
    /\ idx' = idx + 1
    /\ UNCHANGED <<arg0, argv, program, encoding, net_output, pc, tokenizer,
                   stdin_state, proc, text, added, removed, stdout, stderr, exit_code>>

\* --git without the break: the scan goes on over the following arguments
ScanGit_NoBreak ==
    /\ Scanning
    /\ arg = "--git"
    /\ mode' = GitDiff(SubSeq(argv, idx + 2, Len(argv)))
    /\ idx' = idx + 1
    /\ UNCHANGED <<arg0, argv, program, encoding, net_output, pc, tokenizer,
                   stdin_state, proc, text, added, removed, stdout, stderr, exit_code>>

ScanGit ==
    /\ Scanning
    /\ arg = "--git"
    /\ mode' = GitDiff(SubSeq(argv, idx + 2, Len(argv)))
    /\ idx' = Len(argv)
    /\ pc' = "load"
    /\ UNCHANGED <<arg0, argv, program, encoding, net_output, tokenizer,
                   stdin_state, proc, text, added, removed, stdout, stderr, exit_code>>

ScanNet ==
    /\ Scanning
    /\ arg = "--net"
    /\ net_output' = TRUE
    /\ idx' = idx + 1
    /\ UNCHANGED <<arg0, argv, program, encoding, mode, pc, tokenizer,
                   stdin_state, proc, text, added, removed, stdout, stderr, exit_code>>

\* the help text printed without the return that follows it
ScanHelp_NoReturn ==
    /\ Scanning
    /\ arg \in HelpFlags
    /\ idx' = idx + 1
    /\ stdout' = Append(stdout, Out("Help", 0, 0, program))
    /\ UNCHANGED <<arg0, argv, program, encoding, mode, net_output, pc, tokenizer,
                   stdin_state, proc, text, added, removed, stderr, exit_code>>

ScanHelp ==
    /\ Scanning
    /\ arg \in HelpFlags
    /\ idx' = idx + 1
    /\ stdout' = Append(stdout, Out("Help", 0, 0, program))
    /\ Succeed
    /\ UNCHANGED <<arg0, argv, program, encoding, mode, net_output, tokenizer,
                   stdin_state, proc, text, added, removed>>

ScanList ==
    /\ Scanning
    /\ arg = "--list"
    /\ idx' = idx + 1
    /\ stdout' = Append(stdout, Out("Supported", 0, 0, << >>))
    /\ Succeed
    /\ UNCHANGED <<arg0, argv, program, encoding, mode, net_output, tokenizer,
                   stdin_state, proc, text, added, removed>>

ScanOther ==
    /\ Scanning
    /\ arg \notin KnownFlags
    /\ idx' = idx + 1
    /\ Fail(UnrecognizedMsg(arg))
    /\ UNCHANGED <<arg0, argv, program, encoding, mode, net_output, tokenizer,
                   stdin_state, proc, text, added, removed, stdout>>

ScanEnd ==
    /\ pc = "scan"
    /\ idx = Len(argv)
    /\ pc' = "load"
    /\ UNCHANGED <<arg0, argv, idx, program, encoding, mode, net_output, tokenizer,
                   stdin_state, proc, text, added, removed, stdout, stderr, exit_code>>

(***************************************************************************)
(* run: the tokenizer load                                                 *)
(***************************************************************************)
LoadEncoding ==
    /\ pc = "load"
    /\ \/ /\ load_encoding(encoding) # None
          /\ tokenizer' = load_encoding(encoding)
          /\ pc' = "match"
          /\ UNCHANGED <<stderr, exit_code>>
       \/ /\ load_encoding(encoding) = None
          /\ Fail(UnsupportedMsg(encoding))
          /\ UNCHANGED tokenizer
    /\ UNCHANGED <<arg0, argv, idx, program, encoding, mode, net_output,
                   stdin_state, proc, text, added, removed, stdout>>

(***************************************************************************)
(* run: the branch on the mode                                             *)
(***************************************************************************)
CountNetError ==
    /\ pc = "match"
    /\ mode.kind = "Count"
    /\ net_output
    /\ Fail(NetCountMsg)
    /\ UNCHANGED <<arg0, argv, idx, program, encoding, mode, net_output, tokenizer,
                   stdin_state, proc, text, added, removed, stdout>>

ReadStdin ==
    /\ pc = "match"
    /\ \/ mode.kind = "Count" /\ ~net_output
       \/ mode.kind = "Diff"
    /\ \/ \E bytes \in ByteTexts :
             /\ text' = Some(from_utf8_lossy(bytes))
             /\ stdin_state' = "read"
             /\ pc' = "have_text"
             /\ UNCHANGED <<stderr, exit_code>>
       \/ \E e \in OsErrors :
             /\ stdin_state' = "failed"
             /\ Fail(StdinMsg(e))
             /\ UNCHANGED text
    /\ UNCHANGED <<arg0, argv, idx, program, encoding, mode, net_output, tokenizer,
                   proc, added, removed, stdout>>

\* run_git_diff without the test of the exit status
RunGitDiff_IgnoreStatus ==
    /\ pc = "match"
    /\ mode.kind = "GitDiff"
    /\ LET command == git_command(mode.diff_args) IN
       \/ \E e \in OsErrors :
             /\ proc' = [invoked |-> TRUE, spawned |-> FALSE, argv |-> command,
                         success |-> FALSE, stdout |-> << >>, stderr |-> << >>]
             /\ Fail(SpawnMsg(e))
             /\ UNCHANGED text
       \/ \E out \in PartialStdouts, errtext \in ErrTexts :
             /\ proc' = [invoked |-> TRUE, spawned |-> TRUE, argv |-> command,
                         success |-> FALSE, stdout |-> out, stderr |-> errtext]
             /\ text' = Some(from_utf8_lossy(out))
             /\ pc' = "have_text"
             /\ UNCHANGED <<stderr, exit_code>>
       \/ \E out \in ByteTexts :
             /\ proc' = [invoked |-> TRUE, spawned |-> TRUE, argv |-> command,
                         success |-> TRUE, stdout |-> out, stderr |-> << >>]
             /\ text' = Some(from_utf8_lossy(out))
             /\ pc' = "have_text"
             /\ UNCHANGED <<stderr, exit_code>>
    /\ UNCHANGED <<arg0, argv, idx, program, encoding, mode, net_output, tokenizer,
                   stdin_state, added, removed, stdout>>

RunGitDiff ==
    /\ pc = "match"
    /\ mode.kind = "GitDiff"
    /\ LET command == git_command(mode.diff_args) IN
       \/ \E e \in OsErrors :
             /\ proc' = [invoked |-> TRUE, spawned |-> FALSE, argv |-> command,
                         success |-> FALSE, stdout |-> << >>, stderr |-> << >>]
             /\ Fail(SpawnMsg(e))
             /\ UNCHANGED text
       \/ \E out \in PartialStdouts, errtext \in ErrTexts :
             /\ proc' = [invoked |-> TRUE, spawned |-> TRUE, argv |-> command,
                         success |-> FALSE, stdout |-> out, stderr |-> errtext]
             /\ Fail(GitMsg(trim(from_utf8_lossy(errtext))))
             /\ UNCHANGED text
       \/ \E out \in ByteTexts :
             /\ proc' = [invoked |-> TRUE, spawned |-> TRUE, argv |-> command,
                         success |-> TRUE, stdout |-> out, stderr |-> << >>]
             /\ text' = Some(from_utf8_lossy(out))
             /\ pc' = "have_text"
             /\ UNCHANGED <<stderr, exit_code>>
    /\ UNCHANGED <<arg0, argv, idx, program, encoding, mode, net_output, tokenizer,
                   stdin_state, added, removed, stdout>>

CountPrint ==
    /\ pc = "have_text"
    /\ mode.kind = "Count"
    /\ stdout' = Append(stdout,
                        Out("Single", Len(encode_with_special_tokens(tokenizer[1], text[1])), 0, << >>))
    /\ Succeed
    /\ UNCHANGED <<arg0, argv, idx, program, encoding, mode, net_output, tokenizer,
                   stdin_state, proc, text, added, removed>>

DiffTotals ==
    /\ pc = "have_text"
    /\ mode.kind \in {"Diff", "GitDiff"}
    /\ LET totals == diff_token_totals(tokenizer[1], text[1]) IN
          /\ added' = totals[1]
          /\ removed' = totals[2]
    /\ pc' = "report"
    /\ UNCHANGED <<arg0, argv, idx, program, encoding, mode, net_output, tokenizer,
                   stdin_state, proc, text, stdout, stderr, exit_code>>

PrintDiffTotals ==
    /\ pc = "report"
    /\ IF net_output
       THEN stdout' = Append(stdout, Out("Net", net_total(added, removed), 0, << >>))
       ELSE stdout' = Append(stdout, Out("Pair", added, removed, << >>))
    /\ Succeed
    /\ UNCHANGED <<arg0, argv, idx, program, encoding, mode, net_output, tokenizer,
                   stdin_state, proc, text, added, removed>>

Next ==
    \/ ScanEncoding
    \/ ScanDiff
    \/ ScanGit
    \/ ScanNet
    \/ ScanHelp
    \/ ScanList
    \/ ScanOther
    \/ ScanEnd
    \/ LoadEncoding
    \/ CountNetError
    \/ ReadStdin
    \/ RunGitDiff
    \/ CountPrint
    \/ DiffTotals
    \/ PrintDiffTotals

Spec == Init /\ [][Next]_vars

(***************************************************************************)
(* The classification and the report alone: diff_token_totals and          *)
(* print_diff_totals applied to every diff text up to MaxText characters,  *)
(* from the state run() is in once the text has been obtained.             *)
(***************************************************************************)
ConfigArgs(m, n) ==
    (IF n THEN <<"--net">> ELSE << >>) \o (IF m = Diff THEN <<"-d">> ELSE <<"--git">>)

InitWithText(t) ==
    /\ arg0 = None
    /\ mode \in {Diff, GitDiff(<< >>)}
    /\ net_output \in BOOLEAN
    /\ argv = ConfigArgs(mode, net_output)
    /\ idx = Len(argv)
    /\ program = display_name(raw_program(arg0))
    /\ encoding = DEFAULT_ENCODING
    /\ pc = "have_text"
    /\ tokenizer = load_encoding(encoding)
    /\ stdin_state = IF mode = Diff THEN "read" ELSE "unread"
    /\ proc = IF mode = Diff THEN NoProc
              ELSE [invoked |-> TRUE, spawned |-> TRUE, argv |-> git_command(<< >>),
                    success |-> TRUE, stdout |-> t, stderr |-> << >>]
    /\ text = Some(t)
    /\ added = 0
    /\ removed = 0
    /\ stdout = << >>
    /\ stderr = << >>
    /\ exit_code = None

InitTotals == \E t \in DiffTexts : InitWithText(t)

NextReport ==
    \/ DiffTotals
    \/ PrintDiffTotals

SpecTotals == InitTotals /\ [][NextReport]_vars

(***************************************************************************)
(* The report at the ends of the tally's range: a diff of one added and    *)
(* one removed line whose payloads tokenize to a and r tokens, for every   *)
(* a and r a usize holds.                                                  *)
(***************************************************************************)
\* n characters no two neighbours of which are equal: n tokens
Payload(n) == [i \in 1..n |-> IF i % 2 = 1 THEN "a" ELSE "-"]
TallyText(a, r) == <<"+">> \o Payload(a) \o <<"\n", "-">> \o Payload(r) \o <<"\n">>

InitNet == \E a \in 0..UsizeMax, r \in 0..UsizeMax : InitWithText(TallyText(a, r))

SpecNet == InitNet /\ [][NextReport]_vars

(***************************************************************************)
(* What the argument list says, read off argv alone.                       *)
(***************************************************************************)
ModeFlags == DiffFlags \cup {"--git"}
ContinuingFlags == EncodingFlags \cup DiffFlags \cup {"--net"}

\* the positions a scan that never stopped would match as options
RECURSIVE OptionPositions(_, _)
OptionPositions(av, i) ==
    IF i > Len(av) THEN {}
    ELSE {i} \cup OptionPositions(av, IF av[i] \in EncodingFlags THEN i + 2 ELSE i + 1)

\* the positions the scan does match: nothing before them ended it
ScannedPositions(av) ==
    LET options == OptionPositions(av, 1) IN
    {i \in options : \A j \in options : j < i => av[j] \in ContinuingFlags}

\* the scan ends without a short-circuit and without an error
ScanCompletes(av) ==
    \A i \in ScannedPositions(av) :
        /\ av[i] \in ContinuingFlags \cup {"--git"}
        /\ av[i] \in EncodingFlags => i < Len(av)

SetMax(S) == CHOOSE x \in S : \A y \in S : y <= x

\* the mode the mode-setting flags among the first n arguments resolve to
ModeFlagsScanned(av, n) == {i \in ScannedPositions(av) : i <= n /\ av[i] \in ModeFlags}
LastFlagMode(av, n) ==
    IF ModeFlagsScanned(av, n) = {} THEN Count
    ELSE LET last == SetMax(ModeFlagsScanned(av, n)) IN
         IF av[last] = "--git" THEN GitDiff(SubSeq(av, last + 1, Len(av))) ELSE Diff

\* the encoding and the net flag the options before position g resolve to
EncodingValues(av, g) == {i \in ScannedPositions(av) : i < g /\ av[i] \in EncodingFlags /\ i < Len(av)}
EncodingBefore(av, g) ==
    IF EncodingValues(av, g) = {} THEN DEFAULT_ENCODING
    ELSE av[SetMax(EncodingValues(av, g)) + 1]
NetBefore(av, g) == \E i \in ScannedPositions(av) : i < g /\ av[i] = "--net"

GitPositions(av) == {i \in ScannedPositions(av) : av[i] = "--git"}

ErrorMessages == {stderr[i].msg : i \in 1..Len(stderr)}
LineCount(msg) == 1 + Cardinality({i \in 1..Len(msg.arg) : msg.arg[i] = "\n"})
Failed(msg) == exit_code = Some(1) /\ Len(stderr) = 1 /\ stderr[1].msg = msg

(***************************************************************************)
(* Claims                                                                  *)
(***************************************************************************)
IsFileHeader(l) ==
    /\ Len(l) >= 3
    /\ \/ l[1] = "+" /\ l[2] = "+" /\ l[3] = "+"
       \/ l[1] = "-" /\ l[2] = "-" /\ l[3] = "-"

\* the lines that start with the sign and are no file header
SignedLines(ls, sign) ==
    {i \in 1..Len(ls) : ls[i] # << >> /\ ls[i][1] = sign /\ ~IsFileHeader(ls[i])}

RECURSIVE PayloadTokens(_, _, _)
PayloadTokens(tok, ls, S) ==
    IF S = {} THEN 0
    ELSE LET i == CHOOSE x \in S : TRUE IN
         Len(encode_with_special_tokens(tok, SubSeq(ls[i], 2, Len(ls[i]))))
             + PayloadTokens(tok, ls, S \ {i})

AddedSum == PayloadTokens(tokenizer[1], lines(text[1]), SignedLines(lines(text[1]), "+"))
RemovedSum == PayloadTokens(tokenizer[1], lines(text[1]), SignedLines(lines(text[1]), "-"))

\* C1: once diff_token_totals has run, added is the sum of the token counts of
\* the payloads of the lines that start with '+' but not '+++', removed the
\* same for '-' and '---' (file headers and all other lines add nothing, a
\* bare '+' or '-' adds 0), and without --net the one line printed is the
\* pair of exactly these two sums.
C1_PairIsPayloadSums ==
    (pc \in {"report", "done"} /\ mode.kind \in {"Diff", "GitDiff"}) =>
        /\ added = AddedSum
        /\ removed = RemovedSum
        /\ (pc = "done" /\ ~net_output) =>
               stdout = << Out("Pair", AddedSum, RemovedSum, << >>) >>

\* a diff with a file header and a counted line, reported
C1_Witness ==
    /\ pc = "done"
    /\ ~net_output
    /\ \E i \in 1..Len(lines(text[1])) : IsFileHeader(lines(text[1])[i])
    /\ added + removed > 0
    /\ stdout = << Out("Pair", added, removed, << >>) >>

\* C2: with --net the one value printed is added - removed as a signed
\* integer, for every pair of tallies a usize holds: no wrap at either end.
C2_NetIsSignedDifference ==
    (pc = "done" /\ net_output /\ mode.kind \in {"Diff", "GitDiff"}) =>
        /\ stdout = << Out("Net", added - removed, 0, << >>) >>
        /\ (removed > added) = (stdout[1].a < 0)
        /\ (removed = added) = (stdout[1].a = 0)

\* nothing added, the largest tally removed
C2_Witness ==
    /\ pc = "done"
    /\ net_output
    /\ added = 0
    /\ removed = UsizeMax
    /\ stdout = << Out("Net", 0 - UsizeMax, 0, << >>) >>

\* C3: every run whose scan completes with --net set and the mode Count
\* fails with "--net can only be used with --diff or --git", whatever the
\* other options are.
C3_NetWithCountMessage ==
    (pc = "done" /\ ScanCompletes(argv) /\ net_output /\ mode = Count) =>
        Failed(NetCountMsg)

\* C4: once --git has been scanned the scan is over: the mode is GitDiff of
\* all the arguments after it, in order; encoding and net_output are what
\* the options before it made them; nothing after it prints help or the
\* list or raises a scan error; and git, when it is run, is run with diff
\* --no-ext-diff --unified=0 followed by exactly those arguments.
C4_GitTakesTheRest ==
    \A g \in GitPositions(argv) :
        idx >= g =>
            LET rest == SubSeq(argv, g + 1, Len(argv)) IN
            /\ pc # "scan"
            /\ idx = Len(argv)
            /\ mode = GitDiff(rest)
            /\ encoding = EncodingBefore(argv, g)
            /\ net_output = NetBefore(argv, g)
            /\ \A i \in 1..Len(stdout) : stdout[i].kind \notin {"Help", "Supported"}
            /\ \A m \in ErrorMessages :
                   m.fmt \notin {MissingValueMsg.fmt, UnrecognizedMsg("").fmt}
            /\ proc.invoked =>
                   proc.argv = <<"diff", "--no-ext-diff", "--unified=0">> \o rest

\* git run with two arguments after --git that look like options
C4_Witness ==
    /\ pc = "done"
    /\ proc.invoked
    /\ Len(argv) = 3
    /\ argv[1] = "--git"
    /\ argv[2] \in HelpFlags
    /\ argv[3] \in EncodingFlags
    /\ proc.argv = <<"diff", "--no-ext-diff", "--unified=0", argv[2], argv[3]>>

\* C5, as claimed: every argument list whose last token is -e or --encoding
\* fails with "missing value for --encoding".
C5_Original ==
    (pc = "done" /\ argv # << >> /\ argv[Len(argv)] \in EncodingFlags) =>
        Failed(MissingValueMsg)

\* C5, amended: when the last token is -e or --encoding and the scan reaches
\* it as an option, the run fails with "missing value for --encoding" and
\* nothing else happens: no output, no tokenizer, no stdin, no subprocess.
C5_MissingValue ==
    (/\ pc # "scan"
     /\ argv # << >>
     /\ argv[Len(argv)] \in EncodingFlags
     /\ Len(argv) \in ScannedPositions(argv)) =>
        /\ pc = "done"
        /\ Failed(MissingValueMsg)
        /\ stdout = << >>
        /\ tokenizer = None
        /\ stdin_state = "unread"
        /\ ~proc.invoked

\* --net -d -e: the option is reached after two others
C5_Witness ==
    /\ pc = "done"
    /\ Len(argv) = 3
    /\ argv[1] = "--net"
    /\ argv[2] \in DiffFlags
    /\ argv[3] \in EncodingFlags
    /\ Failed(MissingValueMsg)

\* C6: a run ends with exit code 0 or 1; on an error exactly one line is on
\* the error stream, '<program-name>: <message>', the program name being the
\* one derived from the invoked path, as in the usage text.
C6_ExitCodeAndErrorLine ==
    pc = "done" =>
        /\ exit_code \in {Some(0), Some(1)}
        /\ exit_code = Some(0) => stderr = << >>
        /\ exit_code = Some(1) =>
               /\ Len(stderr) = 1
               /\ stderr[1].prefix = program
               /\ LineCount(stderr[1].msg) = 1

\* C7: a run that ends in an error has written nothing to standard output;
\* standard output is written only by a run that exits 0.
C7_NoOutputBeforeError ==
    /\ exit_code = Some(1) => stdout = << >>
    /\ stdout # << >> => exit_code = Some(0)
    /\ Len(stdout) <= 1

\* the latest error there is: git ran, wrote a partial diff, and failed
C7_Witness ==
    /\ pc = "done"
    /\ exit_code = Some(1)
    /\ proc.spawned
    /\ proc.stdout # << >>
    /\ stdout = << >>

\* m is s without its leading and trailing whitespace
IsTrimOf(m, s) ==
    \E i \in 0..Len(s), j \in 0..Len(s) :
        /\ i + j <= Len(s)
        /\ m = SubSeq(s, i + 1, Len(s) - j)
        /\ \A k \in 1..i : s[k] \in Whitespace
        /\ \A k \in (Len(s) - j + 1)..Len(s) : s[k] \in Whitespace
        /\ m # << >> => (m[1] \notin Whitespace /\ m[Len(m)] \notin Whitespace)

\* C8: in GitDiff mode a process that cannot be started fails the run with
\* the spawn error's message; one that exits nonzero fails it with its
\* stderr text trimmed, its stdout never reaching the classifier and
\* nothing being printed; only the stdout of a process that exited zero is
\* the text classified.
C8_GitFailureMapping ==
    proc.invoked =>
        /\ mode.kind = "GitDiff"
        /\ ~proc.spawned =>
               /\ \E e \in OsErrors : Failed(SpawnMsg(e))
               /\ text = None /\ stdout = << >>
        /\ (proc.spawned /\ ~proc.success) =>
               /\ exit_code = Some(1)
               /\ Len(stderr) = 1
               /\ IsTrimOf(stderr[1].msg.arg, proc.stderr)
               /\ text = None /\ added = 0 /\ removed = 0 /\ stdout = << >>
        /\ text # None =>
               /\ proc.spawned /\ proc.success
               /\ text[1] = from_utf8_lossy(proc.stdout)

\* git wrote a partial diff and failed with whitespace around its message
C8_Witness ==
    /\ pc = "done"
    /\ proc.spawned
    /\ ~proc.success
    /\ proc.stdout # << >>
    /\ proc.stderr = <<" ", "f", "\n">>
    /\ stderr[1].msg.arg = <<"f">>

\* C9: the check of --net against Count mode comes before every later step:
\* in a run whose scan completed with --net set and the mode Count, no
\* tokenizer is ever loaded, no load failure is ever reported, stdin is not
\* read, no process is spawned, nothing is printed.
C9_ValidatedBeforeLoad ==
    (pc # "scan" /\ ScanCompletes(argv) /\ net_output /\ mode = Count) =>
        /\ tokenizer = None
        /\ \A m \in ErrorMessages : m = NetCountMsg
        /\ stdin_state = "unread"
        /\ ~proc.invoked
        /\ stdout = << >>

\* C10: the mode is the one the last mode-setting flag scanned so far
\* resolves to: Count when there is none, Diff for -d/--diff, GitDiff of the
\* rest for --git; --net and -e/--encoding never change it.
C10_LastModeFlagWins ==
    /\ mode = LastFlagMode(argv, idx)
    /\ (pc # "scan" /\ ScanCompletes(argv)) => mode = LastFlagMode(argv, Len(argv))

\* -d, -d again, then --net: still Diff, and the run completes
C10_Witness ==
    /\ pc = "done"
    /\ exit_code = Some(0)
    /\ Len(argv) = 3
    /\ argv[1] \in DiffFlags
    /\ argv[2] \in DiffFlags
    /\ argv[3] = "--net"
    /\ mode = Diff

====
